---- MODULE Spec2Model ----
(***************************************************************************)
(* Session establishment of wtransport's endpoint module (endpoint.rs):    *)
(* the client handshake Endpoint<Client>::connect, the server handshake    *)
(* IncomingSession::accept and the SessionRequest accept / not_found       *)
(* surface.  Every await of the source is one suspension point (a value    *)
(* of a pc variable); one action models the code that runs from the        *)
(* completion of one await up to the next await or the return.  The QUIC   *)
(* stack, the HTTP/3 driver and the session stream are the environment:    *)
(* the result of every awaited call is chosen with \E from a small set.    *)
(* Every call the handshake code makes on its collaborators is appended,   *)
(* in source order, to a call trace.                                       *)
(***************************************************************************)
EXTENDS Integers, Sequences, FiniteSets, TLC

VARIABLES
    side,       \* the Side marker of the Endpoint: "Client" or "Server"
    c_pc,       \* suspension point of Endpoint<Client>::connect
    c_url,      \* the parsed url argument of connect
    c_quic,     \* the client's quinn::Connection
    c_driver,   \* the client's Driver
    c_stream,   \* the client's StreamSession
    c_trace,    \* calls made by connect, in order
    c_ret,      \* value returned by connect
    i_pc,       \* suspension point of IncomingSession::accept
    i_ret,      \* value the IncomingSession future yields
    r_pc,       \* suspension point of SessionRequest::accept / not_found
    r_method,   \* the method that consumed the SessionRequest
    r_ret,      \* value returned by SessionRequest::accept / not_found
    s_quic,     \* the server's quinn::Connection
    s_driver,   \* the server's Driver
    s_stream,   \* the server's StreamSession
    s_trace     \* calls made by the server handshake code, in order

cvars == <<c_pc, c_url, c_quic, c_driver, c_stream, c_trace, c_ret>>
svars == <<i_pc, i_ret, r_pc, r_method, r_ret, s_quic, s_driver, s_stream, s_trace>>
vars == <<side, c_pc, c_url, c_quic, c_driver, c_stream, c_trace, c_ret,
          i_pc, i_ret, r_pc, r_method, r_ret, s_quic, s_driver, s_stream, s_trace>>

----------------------------------------------------------------------------
(* Bounds of the model *)

\* stream ids and session ids range over 0..MaxStreamId
MaxStreamId == 1

\* user agents are padded with up to MaxPad characters on each side
MaxPad == 1

----------------------------------------------------------------------------
(* Values *)

None == [some |-> FALSE]

Some(v) == [some |-> TRUE, val |-> v]

\* wtransport_proto::error::ErrorCode (the kinds the handshake can meet)
ErrorCodes == {"ClosedCriticalStream", "FrameUnexpected", "Frame", "Id",
               "Message", "Decompression"}

\* ErrorCode::to_code: the HTTP/3 wire value of an error code
ToCode(ec) ==
    CASE ec = "ClosedCriticalStream" -> 260
      [] ec = "FrameUnexpected"      -> 261
      [] ec = "Frame"                -> 262
      [] ec = "Id"                   -> 264
      [] ec = "Message"              -> 270
      [] ec = "Decompression"        -> 512

\* driver::utils::varint_w2q: a proto varint as a quinn VarInt (same value)
varint_w2q(v) == v

\* quinn::ConnectionError values a failed or lost connection reports
QuicErrors == {"TimedOut", "ApplicationClosed"}

\* DriverError values
DriverErrors == {"Proto", "NotConnected"}

\* FrameKind
FrameKinds == {"Headers", "Data", "WebTransport"}

\* status codes a response may carry
StatusCodes == {199, 200, 299, 300, 404}

\* StatusCode::is_successful
is_successful(code) == code >= 200 /\ code < 300

----------------------------------------------------------------------------
(* Results, errors, trace events *)

Pending == [tag |-> "Pending"]

Ok(v) == [tag |-> "Ok", val |-> v]

Err(e) == [tag |-> "Err", val |-> e]

\* ConnectionError::local_h3_error(error_code)
local_h3_error(ec) == [via |-> "local_h3_error", code |-> ec]

\* ConnectionError::with_driver_error(driver_error, &quic_connection)
with_driver_error(driver_error, quic) == [via |-> "with_driver_error", code |-> driver_error]

\* ConnectionError::no_connect(&quic_connection): the connection's close reason
no_connect(quic) == [via |-> "no_connect", code |-> quic.close_reason]

\* From<quinn::ConnectionError> for ConnectionError
quic_error(e) == [via |-> "quic", code |-> e]

\* the variants of ConnectingError
ConnectingError(kind, inner) == [kind |-> kind, inner |-> inner]

\* ConnectingError::with_no_connection(&quic_connection)
with_no_connection(quic) == ConnectingError("ConnectionError", no_connect(quic))

\* Connection::new(quic_connection, driver, session_id)
Connection(session_id) == [session_id |-> session_id]

\* one entry of a call trace: ph is "call" (an awaited call is issued),
\* "ret" (it completed, arg is its result) or "sync" (a call that does not await)
Ev(op, ph, arg) == [op |-> op, ph |-> ph, arg |-> arg]

\* positions of the trace holding an entry of operation op in phase ph
At(trace, op, ph) == {k \in 1..Len(trace) : trace[k].op = op /\ trace[k].ph = ph}

----------------------------------------------------------------------------
(* The QUIC connection, the driver, the session stream *)

NoQuic == [owner |-> "none", closes |-> <<>>, close_reason |-> "none"]

\* a connection just established, held by the handshake code
NewQuic == [owner |-> "handshake", closes |-> <<>>, close_reason |-> "none"]

\* quinn::Connection::close(error_code, reason)
close(quic, error_code, reason) ==
    [quic EXCEPT !.closes = Append(@, [code |-> error_code, reason |-> reason])]

\* release leaving the connection with the handshake
release_keeps(quic) == quic

\* the handshake returns an error or is dropped: its handles are dropped
release(quic) ==
    IF quic.owner = "handshake" THEN [quic EXCEPT !.owner = "released"] ELSE quic

\* the peer or the network ended the connection with reason e
lost(quic, e) == [quic EXCEPT !.close_reason = e]

NoDriver == [init |-> FALSE, registered |-> <<>>]

\* Driver::init(quic_connection.clone())
DriverInit == [init |-> TRUE, registered |-> <<>>]

\* Driver::register_session(stream_session) completing with Ok
register_session(driver, stream) ==
    [driver EXCEPT !.registered = Append(@, [id |-> stream.id, session_id |-> stream.session_id])]

NoStream == [open |-> FALSE]

StreamIds == 0..MaxStreamId

\* Headers::generate_frame(stream_id)
generate_frame(headers, stream_id) ==
    [kind |-> "Headers", stream_id |-> stream_id, headers |-> headers]

\* StreamSession::write_frame(frame) completing with Ok
write_frame(stream, frame) == [stream EXCEPT !.written = Append(@, frame)]

\* StreamSession::finish
finish(stream) == [stream EXCEPT !.finished = TRUE]

----------------------------------------------------------------------------
(* Endpoint<Client>::connect *)

\* the url argument after Url::parse: unparseable, or a scheme and a host kind
Urls ==
    {[parsed |-> FALSE, scheme |-> "-", host |-> "-"]}
    \cup {[parsed |-> TRUE, scheme |-> sc, host |-> h] :
             sc \in {"https", "http", "wss"}, h \in {"Domain", "Ipv4", "Ipv6"}}

\* validate_url without the scheme test
validate_url_any_scheme(url) ==
    IF ~url.parsed
    THEN Err(ConnectingError("InvalidUrl", "parse_error"))
    ELSE Ok(url)

\* Url::parse and the scheme test: the error connect returns, or Ok
validate_url(url) ==
    IF ~url.parsed
    THEN Err(ConnectingError("InvalidUrl", "parse_error"))
    ELSE IF url.scheme # "https"
         THEN Err(ConnectingError("InvalidUrl", "WebTransport URL scheme must be 'https'"))
         ELSE Ok(url)

\* SessionRequestProto::new(url): the CONNECT request of the client
SessionRequestNew(url) ==
    [method |-> "CONNECT", protocol |-> "webtransport", scheme |-> url.scheme]

\* the StreamSession open_session yields for a request
ClientStreams(url) ==
    {[open |-> TRUE, id |-> i, session_id |-> sid, request |-> SessionRequestNew(url),
      written |-> <<>>, finished |-> FALSE] : i \in StreamIds, sid \in StreamIds}

\* header blocks a peer may send in a response frame: with or without :status
ResponseHeaders == {<<>>} \cup {(":status" :> st) : st \in StatusCodes}

\* frames read_frame may yield; decodes tells whether the header block decodes,
\* code is the error of a block that does not
Frames ==
    {[kind |-> k, decodes |-> TRUE, code |-> "-", headers |-> h] :
        k \in FrameKinds, h \in ResponseHeaders}
    \cup {[kind |-> k, decodes |-> FALSE, code |-> ec, headers |-> <<>>] :
             k \in FrameKinds, ec \in {"Decompression", "Message", "Id"}}

\* results of StreamSession::read_frame
ReadResults ==
    {Ok(f) : f \in Frames}
    \cup {Err([t |-> "H3", code |-> ec]) : ec \in ErrorCodes}
    \cup {Err([t |-> "IO", code |-> e]) : e \in QuicErrors}

\* results of StreamSession::write_frame
WriteResults ==
    {Ok([t |-> "unit", code |-> "-"]), Err([t |-> "Stopped", code |-> "-"])}
    \cup {Err([t |-> "NotConnected", code |-> e]) : e \in QuicErrors}

\* Headers::with_frame(&frame, stream_id)
Headers_with_frame(frame, stream_id) ==
    IF frame.decodes THEN Ok(frame.headers) ELSE Err(frame.code)

\* SessionResponseProto::try_from(headers)
SessionResponse_try_from(headers) ==
    IF ":status" \in DOMAIN headers
    THEN Ok([code |-> headers[":status"], headers |-> headers])
    ELSE Err("HeadersParseError")

\* connect_on_write closing the connection when the peer stopped the stream
connect_on_write_close_on_stopped(res, quic) ==
    IF res.tag = "Ok"
    THEN [close |-> None, ret |-> Pending]
    ELSE IF res.val.t = "Stopped"
    THEN [close |-> Some("ClosedCriticalStream"),
          ret |-> Err(ConnectingError("SessionRejected", "-"))]
    ELSE [close |-> None, ret |-> Err(with_no_connection(quic))]

\* connect_on_write going on to read after a write the peer stopped
connect_on_write_ignore_stopped(res, quic) ==
    IF res.tag = "Ok" \/ res.val.t = "Stopped"
    THEN [close |-> None, ret |-> Pending]
    ELSE [close |-> None, ret |-> Err(with_no_connection(quic))]

\* connect_on_write with the two error arms exchanged
connect_on_write_swapped(res, quic) ==
    IF res.tag = "Ok"
    THEN [close |-> None, ret |-> Pending]
    ELSE IF res.val.t = "NotConnected"
    THEN [close |-> None, ret |-> Err(ConnectingError("SessionRejected", "-"))]
    ELSE [close |-> None, ret |-> Err(with_no_connection(quic))]

\* what connect does with the result of the write of the request frame: the code
\* it closes the connection with (if any), and the value it returns (Pending:
\* it goes on to read the response)
connect_on_write(res, quic) ==
    IF res.tag = "Ok"
    THEN [close |-> None, ret |-> Pending]
    ELSE IF res.val.t = "Stopped"
    THEN [close |-> None, ret |-> Err(ConnectingError("SessionRejected", "-"))]
    ELSE [close |-> None, ret |-> Err(with_no_connection(quic))]

\* h3_fault returning the error without closing the connection
h3_fault_no_close(ec) ==
    [close |-> None,
     ret |-> Err(ConnectingError("ConnectionError", local_h3_error(ec)))]

\* an HTTP/3 fault met by connect: quic_connection.close(varint_w2q(code), b"")
\* and then return Err(ConnectionError(local_h3_error(code)))
h3_fault(ec) ==
    [close |-> Some(ec),
     ret |-> Err(ConnectingError("ConnectionError", local_h3_error(ec)))]

\* dispatch closing the connection when the peer rejects the session
dispatch_close_on_reject(session_response) ==
    IF is_successful(session_response.code)
    THEN [close |-> None, ret |-> Pending]
    ELSE [close |-> Some("Message"), ret |-> Err(ConnectingError("SessionRejected", "-"))]

\* dispatch reporting a rejected session as a connection error
dispatch_reject_as_connection_error(session_response) ==
    IF is_successful(session_response.code)
    THEN [close |-> None, ret |-> Pending]
    ELSE [close |-> None,
          ret |-> Err(ConnectingError("ConnectionError", local_h3_error("RequestRejected")))]

\* dispatch registering the session whatever the status
dispatch_register_always(session_response) == [close |-> None, ret |-> Pending]

\* the dispatch of connect on the status of the response
dispatch(session_response) ==
    IF is_successful(session_response.code)
    THEN [close |-> None, ret |-> Pending]
    ELSE [close |-> None, ret |-> Err(ConnectingError("SessionRejected", "-"))]

\* what connect does with the result of read_frame, up to the dispatch on the
\* status: the code it closes the connection with (if any), and the value
\* it returns (Pending: it goes on to register the session)
connect_on_read(res, stream_id, quic) ==
    IF res.tag = "Err"
    THEN IF res.val.t = "H3"
         THEN h3_fault(res.val.code)
         ELSE [close |-> None, ret |-> Err(with_no_connection(quic))]
    ELSE LET frame == res.val
             headers == Headers_with_frame(frame, stream_id)
             session_response == SessionResponse_try_from(headers.val)
         IN  IF frame.kind # "Headers"
             THEN h3_fault("FrameUnexpected")
             ELSE IF headers.tag = "Err"
             THEN h3_fault(headers.val)
             ELSE IF session_response.tag = "Err"
             THEN h3_fault("Message")
             ELSE dispatch(session_response.val)

\* connect taking the stream id for the session id
connect_session_id_stream_id(stream) == stream.id

\* the session id connect gives the Connection (let session_id = ...)
connect_session_id(stream) == stream.session_id

\* connect returns r: the value is recorded and the local handles are dropped
ConnectReturn(r, quic, trace) ==
    /\ c_pc' = "done"
    /\ c_ret' = r
    /\ c_quic' = IF r.tag = "Ok" THEN [quic EXCEPT !.owner = "Connection"] ELSE release(quic)
    /\ c_trace' = Append(trace, Ev("return", "sync", r))

\* ConnectFail issuing the close a second time before the return
ConnectFail_close_twice(o, quic, trace) ==
    IF o.close.some
    THEN ConnectReturn(o.ret,
                       close(close(quic, varint_w2q(ToCode(o.close.val)), <<>>),
                             varint_w2q(ToCode(o.close.val)), <<>>),
                       trace \o <<Ev("close", "sync",
                                     [code |-> varint_w2q(ToCode(o.close.val)),
                                      reason |-> <<>>]),
                                  Ev("close", "sync",
                                     [code |-> varint_w2q(ToCode(o.close.val)),
                                      reason |-> <<>>])>>)
    ELSE ConnectReturn(o.ret, quic, trace)

\* connect leaves with outcome o (of connect_on_write or connect_on_read):
\* the close it asks for, then the return
ConnectFail(o, quic, trace) ==
    IF o.close.some
    THEN ConnectReturn(o.ret, close(quic, varint_w2q(ToCode(o.close.val)), <<>>),
                       Append(trace, Ev("close", "sync",
                                        [code |-> varint_w2q(ToCode(o.close.val)),
                                         reason |-> <<>>])))
    ELSE ConnectReturn(o.ret, quic, trace)

\* Url::parse, the scheme test, and the start of lookup_host or of the QUIC connect
ConnectStart ==
    /\ side = "Client"
    /\ c_pc = "idle"
    /\ \E url \in Urls :
         LET v == validate_url(url) IN
         /\ c_url' = url
         /\ IF v.tag = "Err"
            THEN ConnectReturn(v, c_quic, c_trace)
            ELSE /\ c_ret' = c_ret
                 /\ c_quic' = c_quic
                 /\ IF url.host = "Domain"
                    THEN /\ c_pc' = "lookup_host"
                         /\ c_trace' = Append(c_trace, Ev("lookup_host", "call", "-"))
                    ELSE /\ c_pc' = "quic_connect"
                         /\ c_trace' = Append(c_trace, Ev("quic_connect", "call", "-"))
    /\ UNCHANGED <<side, c_driver, c_stream, svars>>

\* lookup_host(..).await, .next(), then the start of the QUIC connect
LookupHostDone ==
    /\ side = "Client"
    /\ c_pc = "lookup_host"
    /\ \E res \in {"io_error", "empty", "address"} :
         LET t == Append(c_trace, Ev("lookup_host", "ret", res)) IN
         CASE res = "io_error" ->
                ConnectReturn(Err(ConnectingError("DnsLookup", "io_error")), c_quic, t)
           [] res = "empty" ->
                ConnectReturn(Err(ConnectingError("DnsNotFound", "-")), c_quic, t)
           [] res = "address" ->
                /\ c_pc' = "quic_connect"
                /\ c_trace' = Append(t, Ev("quic_connect", "call", "-"))
                /\ UNCHANGED <<c_ret, c_quic>>
    /\ UNCHANGED <<side, c_url, c_driver, c_stream, svars>>

\* endpoint.connect(..).await, Driver::init, then the start of accept_settings
QuicConnectDone ==
    /\ side = "Client"
    /\ c_pc = "quic_connect"
    /\ \/ \E e \in QuicErrors :
            /\ ConnectReturn(Err(ConnectingError("ConnectionError", quic_error(e))), c_quic,
                             Append(c_trace, Ev("quic_connect", "ret", "Err")))
            /\ c_driver' = c_driver
       \/ /\ c_pc' = "accept_settings"
          /\ c_quic' = NewQuic
          /\ c_driver' = DriverInit
          /\ c_trace' = c_trace \o <<Ev("quic_connect", "ret", "Ok"),
                                     Ev("driver_init", "sync", "-"),
                                     Ev("accept_settings", "call", "-")>>
          /\ c_ret' = c_ret
    /\ UNCHANGED <<side, c_url, c_stream, svars>>

\* driver.accept_settings().await, then the start of open_session
AcceptSettingsDone ==
    /\ side = "Client"
    /\ c_pc = "accept_settings"
    /\ \/ \E e \in DriverErrors :
            ConnectReturn(Err(ConnectingError("ConnectionError", with_driver_error(e, c_quic))),
                          c_quic, Append(c_trace, Ev("accept_settings", "ret", "Err")))
       \/ /\ c_pc' = "open_session"
          /\ c_trace' = c_trace \o <<Ev("accept_settings", "ret", "Ok"),
                                     Ev("open_session", "call", SessionRequestNew(c_url))>>
          /\ UNCHANGED <<c_ret, c_quic>>
    /\ UNCHANGED <<side, c_url, c_driver, c_stream, svars>>

\* driver.open_session(..).await, then the start of the write of the request frame
OpenSessionDone ==
    /\ side = "Client"
    /\ c_pc = "open_session"
    /\ \/ \E e \in DriverErrors :
            /\ ConnectReturn(Err(ConnectingError("ConnectionError", with_driver_error(e, c_quic))),
                             c_quic, Append(c_trace, Ev("open_session", "ret", "Err")))
            /\ c_stream' = c_stream
       \/ \E stream \in ClientStreams(c_url) :
            /\ c_pc' = "write_frame"
            /\ c_stream' = stream
            /\ c_trace' = c_trace \o <<Ev("open_session", "ret", "Ok"),
                                       Ev("write_frame", "call",
                                          generate_frame(stream.request, stream.id))>>
            /\ UNCHANGED <<c_ret, c_quic>>
    /\ UNCHANGED <<side, c_url, c_driver, svars>>

\* stream_session.write_frame(..).await, then the start of read_frame
ConnectWriteDone ==
    /\ side = "Client"
    /\ c_pc = "write_frame"
    /\ \E res \in WriteResults :
         LET quic == IF res.val.t = "NotConnected" THEN lost(c_quic, res.val.code) ELSE c_quic
             o == connect_on_write(res, quic)
             t == Append(c_trace, Ev("write_frame", "ret", res))
         IN  /\ c_stream' = IF res.tag = "Ok"
                            THEN write_frame(c_stream,
                                             generate_frame(c_stream.request, c_stream.id))
                            ELSE c_stream
             /\ IF o.ret.tag = "Pending"
                THEN /\ c_pc' = "read_frame"
                     /\ c_trace' = Append(t, Ev("read_frame", "call", "-"))
                     /\ UNCHANGED <<c_ret, c_quic>>
                ELSE ConnectFail(o, quic, t)
    /\ UNCHANGED <<side, c_url, c_driver, svars>>

\* ConnectReadDone skipping a frame that is no Headers frame and reading again
\* (the trace keeps the last skipped frame only)
ConnectReadDone_skipping_frames ==
    /\ side = "Client"
    /\ c_pc = "read_frame"
    /\ \E res \in ReadResults :
         LET io == res.tag = "Err" /\ res.val.t = "IO"
             quic == IF io THEN lost(c_quic, res.val.code) ELSE c_quic
             o == connect_on_read(res, c_stream.id, quic)
             t == Append(c_trace, Ev("read_frame", "ret", res))
             skip == Ev("skip", "sync", IF res.tag = "Ok" THEN res.val.kind ELSE "-")
         IN  IF res.tag = "Ok" /\ res.val.kind # "Headers"
             THEN /\ c_pc' = "read_frame"
                  /\ c_trace' = IF c_trace[Len(c_trace)].op = "skip"
                                THEN [c_trace EXCEPT ![Len(c_trace)] = skip]
                                ELSE Append(c_trace, skip)
                  /\ UNCHANGED <<c_ret, c_quic>>
             ELSE IF o.ret.tag = "Pending"
             THEN /\ c_pc' = "register_session"
                  /\ c_trace' = Append(t, Ev("register_session", "call", c_stream))
                  /\ UNCHANGED <<c_ret, c_quic>>
             ELSE ConnectFail(o, quic, t)
    /\ UNCHANGED <<side, c_url, c_driver, c_stream, svars>>

\* stream_session.read_frame().await, the checks of the frame, the decoding of the
\* response, and for a successful status the start of register_session
ConnectReadDone ==
    /\ side = "Client"
    /\ c_pc = "read_frame"
    /\ \E res \in ReadResults :
         LET io == res.tag = "Err" /\ res.val.t = "IO"
             quic == IF io THEN lost(c_quic, res.val.code) ELSE c_quic
             o == connect_on_read(res, c_stream.id, quic)
             t == Append(c_trace, Ev("read_frame", "ret", res))
         IN  IF o.ret.tag = "Pending"
             THEN /\ c_pc' = "register_session"
                  /\ c_trace' = Append(t, Ev("register_session", "call", c_stream))
                  /\ UNCHANGED <<c_ret, c_quic>>
             ELSE ConnectFail(o, quic, t)
    /\ UNCHANGED <<side, c_url, c_driver, c_stream, svars>>

\* driver.register_session(stream_session).await, then Connection::new
ConnectRegisterDone ==
    /\ side = "Client"
    /\ c_pc = "register_session"
    /\ \/ \E e \in DriverErrors :
            /\ ConnectReturn(Err(ConnectingError("ConnectionError", with_driver_error(e, c_quic))),
                             c_quic, Append(c_trace, Ev("register_session", "ret", "Err")))
            /\ c_driver' = c_driver
       \/ /\ c_driver' = register_session(c_driver, c_stream)
          /\ ConnectReturn(Ok(Connection(connect_session_id(c_stream))), c_quic,
                           Append(c_trace, Ev("register_session", "ret", "Ok")))
    /\ UNCHANGED <<side, c_url, c_stream, svars>>

\* the connect future is dropped at one of its awaits
ConnectDrop ==
    /\ side = "Client"
    /\ c_pc \in {"lookup_host", "quic_connect", "accept_settings", "open_session",
                 "write_frame", "read_frame", "register_session"}
    /\ c_pc' = "dropped"
    /\ c_quic' = release(c_quic)
    /\ UNCHANGED <<side, c_url, c_driver, c_stream, c_trace, c_ret, svars>>

ClientNext ==
    \/ ConnectStart
    \/ LookupHostDone
    \/ QuicConnectDone
    \/ AcceptSettingsDone
    \/ OpenSessionDone
    \/ ConnectWriteDone
    \/ ConnectReadDone
    \/ ConnectRegisterDone
    \/ ConnectDrop

----------------------------------------------------------------------------
(* IncomingSession *)

firefox == <<"f", "i", "r", "e", "f", "o", "x">>

\* str::contains: pat occurs in s as a contiguous substring
contains(s, pat) ==
    \E k \in 1..(Len(s) - Len(pat) + 1) : SubSeq(s, k, k + Len(pat) - 1) = pat

\* user-agent values of a request: None, or a string around one of a few cores
Pads == UNION {[1..n -> {"f", "x"}] : n \in 0..MaxPad}

Cores ==
    {<<>>, firefox,
     <<"F", "i", "r", "e", "f", "o", "x">>,
     <<"f", "i", "r", "e", "f", "o">>,
     <<"i", "r", "e", "f", "o", "x">>,
     <<"f", "i", "r", "e", "-", "f", "o", "x">>,
     <<"C", "h", "r", "o", "m", "e">>}

UserAgents == {None} \cup {Some(p \o c \o q) : p \in Pads, c \in Cores, q \in Pads}

\* the StreamSession accept_session yields: the CONNECT stream of a peer
ServerStreams ==
    {[open |-> TRUE, id |-> i, session_id |-> sid, request |-> [user_agent |-> ua],
      written |-> <<>>, finished |-> FALSE] :
        i \in StreamIds, sid \in StreamIds, ua \in UserAgents}

\* the IncomingSession future completes with r
IncomingReturn(r, quic, trace) ==
    /\ i_pc' = "done"
    /\ i_ret' = r
    /\ s_quic' = IF r.tag = "Ok" THEN [quic EXCEPT !.owner = "SessionRequest"] ELSE release(quic)
    /\ r_pc' = IF r.tag = "Ok" THEN "ready" ELSE r_pc
    /\ s_trace' = Append(trace, Ev("return", "sync", r))

\* quic_connecting.await, Driver::init, then the start of accept_settings
IncomingConnectingDone ==
    /\ side = "Server"
    /\ i_pc = "connecting"
    /\ \/ \E e \in QuicErrors :
            /\ IncomingReturn(Err(quic_error(e)), s_quic,
                              Append(s_trace, Ev("quic_connecting", "ret", "Err")))
            /\ s_driver' = s_driver
       \/ /\ i_pc' = "accept_settings"
          /\ s_quic' = NewQuic
          /\ s_driver' = DriverInit
          /\ s_trace' = s_trace \o <<Ev("quic_connecting", "ret", "Ok"),
                                     Ev("driver_init", "sync", "-"),
                                     Ev("accept_settings", "call", "-")>>
          /\ UNCHANGED <<i_ret, r_pc>>
    /\ UNCHANGED <<side, cvars, r_method, r_ret, s_stream>>

\* IncomingSettingsDone going on to accept_session whatever accept_settings gave
IncomingSettingsDone_ignoring_error ==
    /\ side = "Server"
    /\ i_pc = "accept_settings"
    /\ \E res \in {"Ok", "Err"} :
          /\ i_pc' = "accept_session"
          /\ s_trace' = s_trace \o <<Ev("accept_settings", "ret", res),
                                     Ev("accept_session", "call", "-")>>
          /\ UNCHANGED <<i_ret, r_pc, s_quic>>
    /\ UNCHANGED <<side, cvars, r_method, r_ret, s_driver, s_stream>>

\* driver.accept_settings().await, then the start of accept_session
IncomingSettingsDone ==
    /\ side = "Server"
    /\ i_pc = "accept_settings"
    /\ \/ \E e \in DriverErrors :
            IncomingReturn(Err(with_driver_error(e, s_quic)), s_quic,
                           Append(s_trace, Ev("accept_settings", "ret", "Err")))
       \/ /\ i_pc' = "accept_session"
          /\ s_trace' = s_trace \o <<Ev("accept_settings", "ret", "Ok"),
                                     Ev("accept_session", "call", "-")>>
          /\ UNCHANGED <<i_ret, r_pc, s_quic>>
    /\ UNCHANGED <<side, cvars, r_method, r_ret, s_driver, s_stream>>

\* driver.accept_session().await, then SessionRequest::new
IncomingSessionDone ==
    /\ side = "Server"
    /\ i_pc = "accept_session"
    /\ \/ \E e \in DriverErrors :
            /\ IncomingReturn(Err(with_driver_error(e, s_quic)), s_quic,
                              Append(s_trace, Ev("accept_session", "ret", "Err")))
            /\ s_stream' = s_stream
       \/ \E stream \in ServerStreams :
            /\ s_stream' = stream
            /\ IncomingReturn(Ok([object |-> "SessionRequest"]), s_quic,
                              Append(s_trace, Ev("accept_session", "ret", "Ok")))
    /\ UNCHANGED <<side, cvars, r_method, r_ret, s_driver>>

\* the IncomingSession future is dropped at one of its awaits
IncomingDrop ==
    /\ side = "Server"
    /\ i_pc \in {"connecting", "accept_settings", "accept_session"}
    /\ i_pc' = "dropped"
    /\ s_quic' = release(s_quic)
    /\ UNCHANGED <<side, cvars, i_ret, r_pc, r_method, r_ret, s_driver, s_stream, s_trace>>

----------------------------------------------------------------------------
(* SessionRequest *)

\* SessionRequest::user_agent
user_agent(stream) == stream.request.user_agent

\* Option::unwrap_or_default on the user agent
unwrap_or_default(opt) == IF opt.some THEN opt.val ELSE <<>>

\* SessionResponseProto::ok
SessionResponse_ok == (":status" :> 200)

\* SessionResponseProto::not_found
SessionResponse_not_found == (":status" :> 404)

\* SessionResponseProto::add(key, value)
add(response, key, value) ==
    [h \in DOMAIN response \cup {key} |-> IF h = key THEN value ELSE response[h]]

\* accept adding the draft header whatever the user agent
accept_response_always(stream) ==
    add(SessionResponse_ok, "sec-webtransport-http3-draft", "draft02")

\* the response SessionRequest::accept builds
accept_response(stream) ==
    LET ua == unwrap_or_default(user_agent(stream))
        response == SessionResponse_ok
    IN  IF ~contains(ua, firefox)
        THEN add(response, "sec-webtransport-http3-draft", "draft02")
        ELSE response

\* not_found answering with the response of accept
not_found_response_ok(stream) ==
    LET ua == unwrap_or_default(user_agent(stream))
        response == SessionResponse_ok
    IN  IF ~contains(ua, firefox)
        THEN add(response, "sec-webtransport-http3-draft", "draft02")
        ELSE response

\* the response SessionRequest::not_found builds
not_found_response(stream) ==
    LET ua == unwrap_or_default(user_agent(stream))
        response == SessionResponse_not_found
    IN  IF ~contains(ua, firefox)
        THEN add(response, "sec-webtransport-http3-draft", "draft02")
        ELSE response

\* send_response_result with the two error arms exchanged
send_response_result_swapped(res, quic) ==
    IF res.tag = "Ok"
    THEN [close |-> None, ret |-> Ok("unit")]
    ELSE IF res.val.t = "Stopped"
    THEN [close |-> None, ret |-> Err(no_connect(quic))]
    ELSE [close |-> Some("ClosedCriticalStream"),
          ret |-> Err(local_h3_error("ClosedCriticalStream"))]

\* send_response_result taking a write the peer stopped for a success
send_response_result_swallow_stopped(res, quic) ==
    IF res.tag = "Ok" \/ res.val.t = "Stopped"
    THEN [close |-> None, ret |-> Ok("unit")]
    ELSE [close |-> None, ret |-> Err(no_connect(quic))]

\* send_response on the result of write_frame: the code it closes the
\* connection with (if any) and its result
send_response_result(res, quic) ==
    IF res.tag = "Ok"
    THEN [close |-> None, ret |-> Ok("unit")]
    ELSE IF res.val.t = "NotConnected"
    THEN [close |-> None, ret |-> Err(no_connect(quic))]
    ELSE [close |-> Some("ClosedCriticalStream"),
          ret |-> Err(local_h3_error("ClosedCriticalStream"))]

\* accept taking the stream id for the session id
accept_session_id_stream_id(stream) == stream.id

\* the session id accept gives the Connection (let session_id = ...)
accept_session_id(stream) == stream.session_id

\* the completion of write_frame inside send_response: the connection, the
\* stream and the trace after it (o is send_response_result of the result)
SendResponseDone(res, o, frame) ==
    LET quic == IF res.tag = "Err" /\ res.val.t = "NotConnected"
                THEN lost(s_quic, res.val.code) ELSE s_quic
        t == Append(s_trace, Ev("write_frame", "ret", res))
        u == IF o.close.some
             THEN Append(t, Ev("close", "sync",
                               [code |-> varint_w2q(ToCode(o.close.val)), reason |-> <<>>]))
             ELSE t
    IN  [quic |-> IF o.close.some
                  THEN close(quic, varint_w2q(ToCode(o.close.val)), <<>>)
                  ELSE quic,
         stream |-> IF res.tag = "Ok" THEN write_frame(s_stream, frame) ELSE s_stream,
         trace |-> Append(u, Ev("send_response", "ret", o.ret))]

\* SessionRequest::accept or not_found returns r
RequestReturn(r, quic, trace) ==
    /\ r_pc' = "done"
    /\ r_ret' = r
    /\ s_quic' = IF r.tag = "Ok" /\ r_method = "accept"
                 THEN [quic EXCEPT !.owner = "Connection"]
                 ELSE [quic EXCEPT !.owner = "released"]
    /\ s_trace' = Append(trace, Ev("return", "sync", r))

\* accept: the response is built and send_response starts the write of its frame
AcceptStart ==
    /\ side = "Server"
    /\ r_pc = "ready"
    /\ r_pc' = "accept_write"
    /\ r_method' = "accept"
    /\ s_trace' = Append(s_trace, Ev("write_frame", "call",
                                     generate_frame(accept_response(s_stream), s_stream.id)))
    /\ UNCHANGED <<side, cvars, i_pc, i_ret, r_ret, s_quic, s_driver, s_stream>>

\* accept: write_frame(frame).await in send_response, then the start of register_session
AcceptWriteDone ==
    /\ side = "Server"
    /\ r_pc = "accept_write"
    /\ \E res \in WriteResults :
         LET o == send_response_result(res, IF res.tag = "Err" /\ res.val.t = "NotConnected"
                                            THEN lost(s_quic, res.val.code) ELSE s_quic)
             d == SendResponseDone(res, o, generate_frame(accept_response(s_stream), s_stream.id))
         IN  /\ s_stream' = d.stream
             /\ IF o.ret.tag = "Ok"
                THEN /\ r_pc' = "accept_register"
                     /\ s_quic' = d.quic
                     /\ s_trace' = Append(d.trace, Ev("register_session", "call", s_stream'))
                     /\ r_ret' = r_ret
                ELSE RequestReturn(o.ret, d.quic, d.trace)
    /\ UNCHANGED <<side, cvars, i_pc, i_ret, r_method, s_driver>>

\* AcceptRegisterDone closing the connection when register_session fails
AcceptRegisterDone_close_on_error ==
    /\ side = "Server"
    /\ r_pc = "accept_register"
    /\ \/ \E e \in DriverErrors :
            /\ RequestReturn(Err(with_driver_error(e, s_quic)),
                             close(s_quic, varint_w2q(ToCode("ClosedCriticalStream")), <<>>),
                             s_trace \o <<Ev("register_session", "ret", "Err"),
                                          Ev("close", "sync",
                                             [code |-> varint_w2q(ToCode("ClosedCriticalStream")),
                                              reason |-> <<>>])>>)
            /\ s_driver' = s_driver
       \/ /\ s_driver' = register_session(s_driver, s_stream)
          /\ RequestReturn(Ok(Connection(accept_session_id(s_stream))), s_quic,
                           Append(s_trace, Ev("register_session", "ret", "Ok")))
    /\ UNCHANGED <<side, cvars, i_pc, i_ret, r_method, s_stream>>

\* accept: driver.register_session(..).await, then Connection::new
AcceptRegisterDone ==
    /\ side = "Server"
    /\ r_pc = "accept_register"
    /\ \/ \E e \in DriverErrors :
            /\ RequestReturn(Err(with_driver_error(e, s_quic)), s_quic,
                             Append(s_trace, Ev("register_session", "ret", "Err")))
            /\ s_driver' = s_driver
       \/ /\ s_driver' = register_session(s_driver, s_stream)
          /\ RequestReturn(Ok(Connection(accept_session_id(s_stream))), s_quic,
                           Append(s_trace, Ev("register_session", "ret", "Ok")))
    /\ UNCHANGED <<side, cvars, i_pc, i_ret, r_method, s_stream>>

\* not_found: the response is built and send_response starts the write of its frame
NotFoundStart ==
    /\ side = "Server"
    /\ r_pc = "ready"
    /\ r_pc' = "not_found_write"
    /\ r_method' = "not_found"
    /\ s_trace' = Append(s_trace, Ev("write_frame", "call",
                                     generate_frame(not_found_response(s_stream), s_stream.id)))
    /\ UNCHANGED <<side, cvars, i_pc, i_ret, r_ret, s_quic, s_driver, s_stream>>

\* NotFoundWriteDone propagating the error of send_response instead of
\* discarding it: the stream is finished only after a successful send
NotFoundWriteDone_propagating ==
    /\ side = "Server"
    /\ r_pc = "not_found_write"
    /\ \E res \in WriteResults :
         LET o == send_response_result(res, IF res.tag = "Err" /\ res.val.t = "NotConnected"
                                            THEN lost(s_quic, res.val.code) ELSE s_quic)
             d == SendResponseDone(res, o,
                                   generate_frame(not_found_response(s_stream), s_stream.id))
         IN  /\ s_stream' = d.stream
             /\ IF o.ret.tag = "Ok"
                THEN /\ r_pc' = "not_found_finish"
                     /\ s_quic' = d.quic
                     /\ s_trace' = Append(d.trace, Ev("finish", "call", "-"))
                     /\ r_ret' = r_ret
                ELSE RequestReturn(o.ret, d.quic, d.trace)
    /\ UNCHANGED <<side, cvars, i_pc, i_ret, r_method, s_driver>>

\* not_found: write_frame(frame).await in send_response, its result discarded,
\* then the start of finish
NotFoundWriteDone ==
    /\ side = "Server"
    /\ r_pc = "not_found_write"
    /\ \E res \in WriteResults :
         LET o == send_response_result(res, IF res.tag = "Err" /\ res.val.t = "NotConnected"
                                            THEN lost(s_quic, res.val.code) ELSE s_quic)
             d == SendResponseDone(res, o,
                                   generate_frame(not_found_response(s_stream), s_stream.id))
         IN  /\ s_stream' = d.stream
             /\ s_quic' = d.quic
             /\ s_trace' = Append(d.trace, Ev("finish", "call", "-"))
    /\ r_pc' = "not_found_finish"
    /\ UNCHANGED <<side, cvars, i_pc, i_ret, r_method, r_ret, s_driver>>

\* not_found: stream_session.finish().await, then the return
NotFoundFinishDone ==
    /\ side = "Server"
    /\ r_pc = "not_found_finish"
    /\ s_stream' = finish(s_stream)
    /\ RequestReturn(Ok("unit"), s_quic, Append(s_trace, Ev("finish", "ret", "-")))
    /\ UNCHANGED <<side, cvars, i_pc, i_ret, r_method, s_driver>>

ServerNext ==
    \/ IncomingConnectingDone
    \/ IncomingSettingsDone
    \/ IncomingSessionDone
    \/ IncomingDrop
    \/ AcceptStart
    \/ AcceptWriteDone
    \/ AcceptRegisterDone
    \/ NotFoundStart
    \/ NotFoundWriteDone
    \/ NotFoundFinishDone

----------------------------------------------------------------------------

Init ==
    /\ side \in {"Client", "Server"}
    /\ c_pc = "idle"
    /\ c_url = [parsed |-> FALSE, scheme |-> "-", host |-> "-"]
    /\ c_quic = NoQuic
    /\ c_driver = NoDriver
    /\ c_stream = NoStream
    /\ c_trace = <<>>
    /\ c_ret = Pending
    /\ i_pc = "connecting"
    /\ i_ret = Pending
    /\ r_pc = "none"
    /\ r_method = "none"
    /\ r_ret = Pending
    /\ s_quic = NoQuic
    /\ s_driver = NoDriver
    /\ s_stream = NoStream
    /\ s_trace = <<>>

Next == ClientNext \/ ServerNext

Spec == Init /\ [][Next]_vars

\* the completions of the operations connect awaits
ConnectCompletes ==
    \/ LookupHostDone
    \/ QuicConnectDone
    \/ AcceptSettingsDone
    \/ OpenSessionDone
    \/ ConnectWriteDone
    \/ ConnectReadDone
    \/ ConnectRegisterDone

\* the completions of the operations IncomingSession awaits
IncomingCompletes ==
    \/ IncomingConnectingDone
    \/ IncomingSettingsDone
    \/ IncomingSessionDone

\* the completions of the operations accept and not_found await
RequestCompletes ==
    \/ AcceptWriteDone
    \/ AcceptRegisterDone
    \/ NotFoundWriteDone
    \/ NotFoundFinishDone

\* the steps of the handshakes when no future is dropped
NextNoDrop ==
    \/ ConnectStart
    \/ ConnectCompletes
    \/ IncomingCompletes
    \/ AcceptStart
    \/ NotFoundStart
    \/ RequestCompletes

\* no future is dropped and every awaited operation eventually completes
FairSpec ==
    /\ Init
    /\ [][NextNoDrop]_vars
    /\ WF_vars(ConnectCompletes)
    /\ WF_vars(IncomingCompletes)
    /\ WF_vars(RequestCompletes)

----------------------------------------------------------------------------
(* Properties of Endpoint<Client>::connect *)

CloseEv(ec) == Ev("close", "sync", [code |-> varint_w2q(ToCode(ec)), reason |-> <<>>])

\* the HTTP/3 fault a result of read_frame amounts to: the code read, FrameUnexpected
\* for a frame that is no Headers frame, the code of a header block that does not
\* decode, Message for headers that are no session response; "none" otherwise
H3FaultOf(res) ==
    IF res.tag = "Err"
    THEN IF res.val.t = "H3" THEN res.val.code ELSE "none"
    ELSE IF res.val.kind # "Headers" THEN "FrameUnexpected"
    ELSE IF ~res.val.decodes THEN res.val.code
    ELSE IF ":status" \notin DOMAIN res.val.headers THEN "Message"
    ELSE "none"

\* connect closed the connection with ec and then returned local_h3_error(ec),
\* right after the read completed at position k of the trace
ClosedThenReturned(k, ec) ==
    /\ c_pc = "done"
    /\ Len(c_trace) = k + 2
    /\ c_trace[k + 1].op = "close"
    /\ c_trace[k + 1] = CloseEv(ec)
    /\ c_trace[k + 2].op = "return"
    /\ c_trace[k + 2].arg = Err(ConnectingError("ConnectionError", local_h3_error(ec)))
    /\ c_ret = Err(ConnectingError("ConnectionError", local_h3_error(ec)))
    /\ c_quic.closes = <<[code |-> varint_w2q(ToCode(ec)), reason |-> <<>>]>>

\* C1: when read_frame fails with H3(code), or yields a frame that is not Headers,
\* or whose headers do not parse, or whose headers are no session response,
\* connect closes the QUIC connection with the matching code and an empty
\* reason, and only then returns ConnectionError(local_h3_error(code)).
C1_H3FaultClosesBeforeReturn ==
    \A k \in At(c_trace, "read_frame", "ret") :
        H3FaultOf(c_trace[k].arg) # "none"
            => ClosedThenReturned(k, H3FaultOf(c_trace[k].arg))

\* C1 witness: headers without a status were read, and connect closed with Message
C1_Witness ==
    /\ c_pc = "done"
    /\ \E k \in At(c_trace, "read_frame", "ret") :
          /\ c_trace[k].arg.tag = "Ok"
          /\ c_trace[k].arg.val.kind = "Headers"
          /\ c_trace[k].arg.val.decodes
          /\ c_trace[k].arg.val.headers = <<>>
    /\ c_quic.closes = <<[code |-> 270, reason |-> <<>>]>>
    /\ c_ret.tag = "Err"
    /\ c_ret.val.inner = local_h3_error("Message")

RejectedBy(ret) == ret.tag = "Err" /\ ret.val.kind = "SessionRejected"

\* C2: an execution of connect that returns SessionRejected produced no
\* Connection, never called register_session, did not close the QUIC connection
\* locally, and released it by drop.
C2_RejectedNoConnectionNoClose ==
    RejectedBy(c_ret) =>
        /\ At(c_trace, "register_session", "call") = {}
        /\ c_driver.registered = <<>>
        /\ At(c_trace, "close", "sync") = {}
        /\ c_quic.closes = <<>>
        /\ c_quic.owner = "released"

\* C2 witness: a 404 response was read and connect returned SessionRejected
C2_Witness ==
    /\ RejectedBy(c_ret)
    /\ \E k \in At(c_trace, "read_frame", "ret") :
          /\ c_trace[k].arg.tag = "Ok"
          /\ c_trace[k].arg.val.kind = "Headers"
          /\ c_trace[k].arg.val.headers = (":status" :> 404)

\* the read completed with a Headers frame that decodes to a 2xx response
Read2xx(res) ==
    /\ res.tag = "Ok"
    /\ res.val.kind = "Headers"
    /\ res.val.decodes
    /\ ":status" \in DOMAIN res.val.headers
    /\ res.val.headers[":status"] \in 200..299

RegisterRet(trace, r) ==
    {k \in At(trace, "register_session", "ret") : trace[k].arg = r}

\* C4: when the frame read decodes to a 2xx response, connect calls
\* register_session on the session stream S exactly once and, if the registration
\* succeeds, returns Ok(Connection) with the session id of S; connect returns
\* Ok(Connection) only when register_session succeeded.
C4_SuccessRegistersOnceThenOk ==
    /\ \A k \in At(c_trace, "read_frame", "ret") :
          Read2xx(c_trace[k].arg) =>
             /\ At(c_trace, "register_session", "call") = {k + 1}
             /\ c_trace[k + 1].arg = c_stream
             /\ RegisterRet(c_trace, "Ok") # {} =>
                   /\ c_ret = Ok(Connection(c_stream.session_id))
                   /\ c_driver.registered =
                         <<[id |-> c_stream.id, session_id |-> c_stream.session_id]>>
    /\ c_ret.tag = "Ok" =>
          /\ RegisterRet(c_trace, "Ok") # {}
          /\ Len(c_driver.registered) = 1
          /\ \E k \in At(c_trace, "read_frame", "ret") : Read2xx(c_trace[k].arg)

\* C4 witness: a 299 response was read, the session registered, and connect
\* returned a Connection on a stream whose id is not its session id
C4_Witness ==
    /\ c_ret.tag = "Ok"
    /\ c_stream.id # c_stream.session_id
    /\ \E k \in At(c_trace, "read_frame", "ret") :
          c_trace[k].arg.val.headers = (":status" :> 299)

\* C6: for a url that does not parse, or whose scheme is not https, connect
\* returns InvalidUrl and performs no DNS lookup, no QUIC connect, no driver
\* initialisation and no stream operation.
C6_BadUrlNoIo ==
    (c_pc # "idle" /\ (~c_url.parsed \/ c_url.scheme # "https")) =>
        /\ c_pc = "done"
        /\ c_ret.tag = "Err"
        /\ c_ret.val.kind = "InvalidUrl"
        /\ Len(c_trace) = 1
        /\ c_trace[1].op = "return"
        /\ c_quic = NoQuic
        /\ c_driver = NoDriver
        /\ c_stream = NoStream

\* C6 witness: connect was called with a url that parses and has scheme http
C6_Witness ==
    /\ c_pc = "done"
    /\ c_url.parsed
    /\ c_url.scheme = "http"
    /\ c_ret.val = ConnectingError("InvalidUrl", "WebTransport URL scheme must be 'https'")

\* positions of the trace where a write of a frame failed with error e
WriteFailed(trace, e) ==
    {k \in At(trace, "write_frame", "ret") : trace[k].arg.tag = "Err" /\ trace[k].arg.val.t = e}

WriteOk(trace) == {k \in At(trace, "write_frame", "ret") : trace[k].arg.tag = "Ok"}

\* C10: connect reads no frame from the session stream before the request
\* Headers frame was written successfully on it; after a failed write
\* read_frame is never called.
C10_WriteBeforeRead ==
    /\ \A k \in At(c_trace, "read_frame", "call") :
          /\ \E j \in WriteOk(c_trace) : j < k
          /\ Len(c_stream.written) = 1
          /\ c_stream.written[1] = generate_frame(SessionRequestNew(c_url), c_stream.id)
    /\ (At(c_trace, "write_frame", "ret") \ WriteOk(c_trace)) # {} =>
          /\ At(c_trace, "read_frame", "call") = {}
          /\ c_pc = "done"
    /\ c_pc \in {"read_frame", "register_session"} => WriteOk(c_trace) # {}

\* C10 witness: the write was stopped by the peer and connect returned
C10_Witness ==
    /\ c_pc = "done"
    /\ WriteFailed(c_trace, "Stopped") # {}
    /\ At(c_trace, "read_frame", "call") = {}

----------------------------------------------------------------------------
(* Properties of SessionRequest *)

AcceptedOk == r_method = "accept" /\ r_pc = "done" /\ r_ret.tag = "Ok"

\* C3: after accept returns Ok(Connection) the driver has registered exactly one
\* session, it is the session stream of the request, and the session id of the
\* Connection is the session id of that stream.
C3_AcceptRegistersOwnSession ==
    AcceptedOk =>
        /\ Len(s_driver.registered) = 1
        /\ s_driver.registered[1].id = s_stream.id
        /\ s_driver.registered[1].session_id = s_stream.session_id
        /\ Cardinality(At(s_trace, "register_session", "call")) = 1
        /\ r_ret.val.session_id = s_stream.session_id

\* C3 witness: accept returned a Connection on a stream whose id is not its session id
C3_Witness ==
    /\ AcceptedOk
    /\ s_stream.id # s_stream.session_id
    /\ Len(s_driver.registered) = 1

\* s has the form pre \o firefox \o post
HasFirefox(s) ==
    \E n \in 0..Len(s) :
        /\ n + Len(firefox) <= Len(s)
        /\ \A j \in 1..Len(firefox) : s[n + j] = firefox[j]

DraftHeader(frame) ==
    /\ "sec-webtransport-http3-draft" \in DOMAIN frame.headers
    /\ frame.headers["sec-webtransport-http3-draft"] = "draft02"

\* the frames the server handed to write_frame, and those it wrote
ResponseFrames ==
    {s_trace[k].arg : k \in At(s_trace, "write_frame", "call")}
    \cup {s_stream.written[k] : k \in 1..Len(s_stream.written)}

\* C5: every response the server sends, the 200 of accept or the 404 of
\* not_found, carries sec-webtransport-http3-draft: draft02 if and only if the
\* user agent of the request does not contain firefox; a request without user
\* agent gets the header.
C5_DraftHeaderUnlessFirefox ==
    r_method # "none" =>
        /\ ResponseFrames # {}
        /\ \A frame \in ResponseFrames :
              /\ frame.headers[":status"] = IF r_method = "accept" THEN 200 ELSE 404
              /\ DraftHeader(frame) <=>
                    (~s_stream.request.user_agent.some
                     \/ ~HasFirefox(s_stream.request.user_agent.val))
              /\ DOMAIN frame.headers \subseteq {":status", "sec-webtransport-http3-draft"}

\* C5 witness: a 200 response without the header was written to a peer whose
\* user agent has firefox inside a longer string
C5_Witness ==
    /\ r_method = "accept"
    /\ Len(s_stream.written) = 1
    /\ ~DraftHeader(s_stream.written[1])
    /\ s_stream.request.user_agent.some
    /\ Len(s_stream.request.user_agent.val) > Len(firefox)

NoLocalClose(quic, trace) == quic.closes = <<>> /\ At(trace, "close", "sync") = {}

\* C7 as claimed: a write stopped by the peer, in connect as in accept and
\* not_found, leaves the QUIC connection without a local close.
C7_Original ==
    /\ WriteFailed(c_trace, "Stopped") # {} => NoLocalClose(c_quic, c_trace)
    /\ WriteFailed(s_trace, "Stopped") # {} => NoLocalClose(s_quic, s_trace)

\* C7 amended: a write stopped by the peer leaves the QUIC connection without a
\* local close in connect; in accept and not_found the connection is
\* closed locally, once, with ClosedCriticalStream.
C7_StoppedNoCloseInConnectOnly ==
    /\ WriteFailed(c_trace, "Stopped") # {} =>
          /\ NoLocalClose(c_quic, c_trace)
          /\ RejectedBy(c_ret)
    /\ WriteFailed(s_trace, "Stopped") # {} =>
          /\ s_quic.closes = <<[code |-> varint_w2q(ToCode("ClosedCriticalStream")),
                                reason |-> <<>>]>>
          /\ Cardinality(At(s_trace, "close", "sync")) = 1

\* C7 witness: the peer stopped the write of connect, which returned without a close
C7_Witness ==
    /\ c_pc = "done"
    /\ WriteFailed(c_trace, "Stopped") # {}
    /\ c_quic.closes = <<>>
    /\ c_quic.owner = "released"

\* the result send_response returned after the write completed at position k - 1
SendResponseRet(k, tag) ==
    /\ k <= Len(s_trace)
    /\ s_trace[k].op = "send_response"
    /\ s_trace[k].arg.tag = tag

\* C8: in send_response a write that fails with Stopped closes the QUIC connection
\* with ClosedCriticalStream and gives local_h3_error(ClosedCriticalStream); a
\* write that fails with NotConnected gives no_connect of the connection and
\* does not close it; a write that succeeds does not close it.
C8_SendResponseErrorMapping ==
    \A k \in At(s_trace, "write_frame", "ret") :
        LET res == s_trace[k].arg IN
        /\ res.tag = "Ok" =>
              /\ NoLocalClose(s_quic, s_trace)
              /\ SendResponseRet(k + 1, "Ok")
        /\ (res.tag = "Err" /\ res.val.t = "NotConnected") =>
              /\ NoLocalClose(s_quic, s_trace)
              /\ SendResponseRet(k + 1, "Err")
              /\ s_trace[k + 1].arg.val = [via |-> "no_connect", code |-> res.val.code]
              /\ s_quic.close_reason = res.val.code
              /\ r_method = "accept" =>
                    r_ret = Err([via |-> "no_connect", code |-> res.val.code])
        /\ (res.tag = "Err" /\ res.val.t = "Stopped") =>
              /\ s_quic.closes = <<[code |-> 260, reason |-> <<>>]>>
              /\ s_trace[k + 1].op = "close"
              /\ s_trace[k + 1] = CloseEv("ClosedCriticalStream")
              /\ SendResponseRet(k + 2, "Err")
              /\ s_trace[k + 2].arg.val = local_h3_error("ClosedCriticalStream")
              /\ r_method = "accept" =>
                    r_ret = Err(local_h3_error("ClosedCriticalStream"))

\* C8 witness: accept met a stopped write and returned after closing the connection
C8_Witness ==
    /\ r_method = "accept"
    /\ r_pc = "done"
    /\ WriteFailed(s_trace, "Stopped") # {}
    /\ Len(s_quic.closes) = 1

\* C9: not_found attempts to send the 404 response exactly once, then finishes
\* the session stream whatever the outcome of the send, returns nothing that
\* shows the send error, never calls register_session and never produces a
\* Connection.
C9_NotFoundSendsOnceThenFinishes ==
    r_method = "not_found" =>
        /\ At(s_trace, "register_session", "call") = {}
        /\ s_driver.registered = <<>>
        /\ s_quic.owner # "Connection"
        /\ Cardinality(At(s_trace, "write_frame", "call")) = 1
        /\ \A k \in At(s_trace, "write_frame", "call") :
              s_trace[k].arg.headers[":status"] = 404
        /\ At(s_trace, "write_frame", "ret") # {} =>
              /\ Cardinality(At(s_trace, "finish", "call")) = 1
              /\ \A k \in At(s_trace, "write_frame", "ret") :
                    \A j \in At(s_trace, "finish", "call") : k < j
        /\ r_pc = "done" =>
              /\ s_stream.finished
              /\ Cardinality(At(s_trace, "finish", "ret")) = 1
              /\ r_ret = Ok("unit")
              /\ s_trace[Len(s_trace)] = Ev("return", "sync", Ok("unit"))

\* C9 witness: not_found met a stopped write, finished the stream and returned
C9_Witness ==
    /\ r_method = "not_found"
    /\ r_pc = "done"
    /\ WriteFailed(s_trace, "Stopped") # {}
    /\ s_stream.finished
    /\ s_stream.written = <<>>


\* C11: in accept, driver.register_session is invoked only after the 200
\* response Headers frame was written successfully on the session stream.
C11_ResponseWrittenBeforeRegister ==
    \A k \in At(s_trace, "register_session", "call") \cup At(s_trace, "register_session", "ret") :
        /\ r_method = "accept"
        /\ \E j \in WriteOk(s_trace) : j < k
        /\ Len(s_stream.written) = 1
        /\ s_stream.written[1].kind = "Headers"
        /\ s_stream.written[1].stream_id = s_stream.id
        /\ s_stream.written[1].headers[":status"] = 200

\* C11 witness: accept wrote the response and register_session completed
C11_Witness ==
    /\ r_method = "accept"
    /\ WriteOk(s_trace) # {}
    /\ RegisterRet(s_trace, "Ok") # {}
    /\ Len(s_driver.registered) = 1


\* the read completed with a Headers frame that decodes to a response whose
\* status is not 2xx
ReadNon2xx(res) ==
    /\ res.tag = "Ok"
    /\ res.val.kind = "Headers"
    /\ res.val.decodes
    /\ ":status" \in DOMAIN res.val.headers
    /\ res.val.headers[":status"] \notin 200..299

\* C12: connect returns SessionRejected if and only if the write of the request
\* frame failed with Stopped or a response with a status that is not 2xx was
\* read and decoded; every other failure after the URL and DNS resolution is
\* returned as ConnectionError.
C12_SessionRejectedIff ==
    c_pc = "done" =>
        /\ RejectedBy(c_ret) <=>
              \/ WriteFailed(c_trace, "Stopped") # {}
              \/ \E k \in At(c_trace, "read_frame", "ret") : ReadNon2xx(c_trace[k].arg)
        /\ (c_ret.tag = "Err" /\ At(c_trace, "quic_connect", "call") # {}
                /\ ~RejectedBy(c_ret))
              => c_ret.val.kind = "ConnectionError"

\* C12 witness: a response with status 300 was read and connect returned SessionRejected
C12_Witness ==
    /\ c_pc = "done"
    /\ RejectedBy(c_ret)
    /\ WriteOk(c_trace) # {}
    /\ \E k \in At(c_trace, "read_frame", "ret") :
          /\ ReadNon2xx(c_trace[k].arg)
          /\ c_trace[k].arg.val.headers[":status"] = 300


\* C13: the server writes at most one response Headers frame on a session
\* stream; a SessionRequest is consumed by exactly one of accept and not_found,
\* the status is 200 only through accept and 404 only through not_found, and
\* one inbound QUIC connection yields at most one Connection.
C13_OneResponseOneConsumer ==
    /\ Cardinality(At(s_trace, "write_frame", "call")) <= 1
    /\ Cardinality(At(s_trace, "return", "sync")) <= 2
    /\ Len(s_driver.registered) <= 1
    /\ r_method = "none" <=> r_pc \in {"none", "ready"}
    /\ r_method = "accept" <=> r_pc \in {"accept_write", "accept_register"}
                               \/ (r_pc = "done" /\ At(s_trace, "finish", "call") = {})
    /\ r_method = "not_found" <=> r_pc \in {"not_found_write", "not_found_finish"}
                                  \/ (r_pc = "done" /\ At(s_trace, "finish", "call") # {})
    /\ r_method # "none" =>
          /\ Len(s_stream.written) <= 1
          /\ \A frame \in ResponseFrames :
                /\ frame.headers[":status"] = 200 <=> r_method = "accept"
                /\ frame.headers[":status"] = 404 <=> r_method = "not_found"
    /\ s_quic.owner = "Connection" <=> AcceptedOk

\* C13 witness: not_found wrote its 404 response and returned
C13_Witness ==
    /\ r_method = "not_found"
    /\ r_pc = "done"
    /\ Len(s_stream.written) = 1
    /\ s_stream.written[1].headers[":status"] = 404
    /\ s_quic.owner = "released"


----------------------------------------------------------------------------
(* Properties of IncomingSession *)

\* the operation, phase and (for the handshake steps, whose results are
\* "Ok" or "Err") result of the first n entries of the server trace
Steps(n) == [k \in 1..n |-> <<s_trace[k].op, s_trace[k].ph,
                               IF s_trace[k].ph = "ret" THEN s_trace[k].arg ELSE "-">>]

StepsConnected ==
    <<(<<"quic_connecting", "ret", "Ok">>), (<<"driver_init", "sync", "-">>),
      (<<"accept_settings", "call", "-">>)>>

StepsSettings ==
    StepsConnected \o <<(<<"accept_settings", "ret", "Ok">>), (<<"accept_session", "call", "-">>)>>

IncomingStateOk ==
    /\ i_pc = "done" <=> i_ret.tag # "Pending"
    /\ r_pc # "none" => i_ret.tag = "Ok"
    /\ i_ret.tag = "Ok" =>
          /\ Len(s_trace) >= 7
          /\ Steps(7) = StepsSettings \o <<(<<"accept_session", "ret", "Ok">>),
                                           (<<"return", "sync", "-">>)>>
          /\ s_trace[7].arg = Ok([object |-> "SessionRequest"])
          /\ s_driver.init
          /\ s_stream.open
          /\ r_pc # "none"
    /\ i_ret.tag = "Err" =>
          /\ r_pc = "none"
          /\ r_method = "none"
          /\ s_stream = NoStream
          /\ i_ret.val.via \in {"quic", "with_driver_error"}
          /\ s_trace[Len(s_trace)] = Ev("return", "sync", i_ret)
          /\ \/ /\ Steps(Len(s_trace) - 1) = <<(<<"quic_connecting", "ret", "Err">>)>>
                /\ i_ret.val.via = "quic"
                /\ s_driver = NoDriver
                /\ s_quic = NoQuic
             \/ /\ Steps(Len(s_trace) - 1) =
                      StepsConnected \o <<(<<"accept_settings", "ret", "Err">>)>>
                /\ i_ret.val.via = "with_driver_error"
             \/ /\ Steps(Len(s_trace) - 1) =
                      StepsSettings \o <<(<<"accept_session", "ret", "Err">>)>>
                /\ i_ret.val.via = "with_driver_error"

\* C14: an IncomingSession completes at most once; it yields a SessionRequest
\* only after the QUIC Connecting resolved, the driver was initialised,
\* accept_settings succeeded and accept_session succeeded, in this order; a
\* failure of the QUIC connect, of accept_settings or of accept_session yields a
\* ConnectionError and no SessionRequest, and no later step is performed.
C14_IncomingSessionOrder ==
    /\ []IncomingStateOk
    /\ [][(i_pc \in {"done", "dropped"}) => (i_pc' = i_pc /\ i_ret' = i_ret)]_vars

\* C14 witness: accept_session failed after the settings were accepted
C14_Witness ==
    /\ i_pc = "done"
    /\ i_ret.tag = "Err"
    /\ At(s_trace, "accept_session", "ret") # {}
    /\ s_quic.owner = "released"


----------------------------------------------------------------------------
(* Cancellation *)

AwaitsOfConnect ==
    {"lookup_host", "quic_connect", "accept_settings", "open_session",
     "write_frame", "read_frame", "register_session"}

\* the QUIC connection of a dropped handshake: released if it was created
ReleasedIfCreated(quic, trace) ==
    IF At(trace, "driver_init", "sync") # {}
    THEN quic.owner = "released"
    ELSE quic = NoQuic

DroppedStateOk ==
    /\ c_pc = "dropped" =>
          /\ c_ret.tag = "Pending"
          /\ At(c_trace, "return", "sync") = {}
          /\ c_driver.registered = <<>>
          /\ ReleasedIfCreated(c_quic, c_trace)
    /\ i_pc = "dropped" =>
          /\ i_ret.tag = "Pending"
          /\ At(s_trace, "return", "sync") = {}
          /\ r_pc = "none"
          /\ r_method = "none"
          /\ ReleasedIfCreated(s_quic, s_trace)

\* C15: when the connect future or an IncomingSession is dropped at one of its
\* suspension points, it never produces a Connection or a SessionRequest, no
\* further handshake step runs, and the QUIC connection, if it was created, is
\* released.
C15_DropCancels ==
    /\ []DroppedStateOk
    /\ [][(c_pc = "dropped") => UNCHANGED cvars]_vars
    /\ [][(i_pc = "dropped") => UNCHANGED svars]_vars
    /\ [][(c_pc' = "dropped" /\ c_pc # "dropped") => c_pc \in AwaitsOfConnect]_vars

\* C15 witness: connect was dropped while it awaited the response frame
C15_Witness ==
    /\ c_pc = "dropped"
    /\ c_trace[Len(c_trace)] = Ev("read_frame", "call", "-")
    /\ c_quic.owner = "released"


----------------------------------------------------------------------------
(* The order of the steps of connect *)

\* the steps of connect that call a collaborator, in the order of the source
StepOrder ==
    <<"lookup_host", "quic_connect", "driver_init", "accept_settings", "open_session",
      "write_frame", "read_frame", "register_session">>

\* an entry of the trace that starts a step
IsStart(e) == e.ph = "call" \/ e.op = "driver_init"

\* the steps connect started, in the order it started them
StartedSteps ==
    LET sel == SelectSeq(c_trace, IsStart) IN [k \in 1..Len(sel) |-> sel[k].op]

\* the completion e of an awaited step is a success
Succeeded(e) ==
    IF e.op \in {"write_frame", "read_frame"} THEN e.arg.tag = "Ok"
    ELSE IF e.op = "lookup_host" THEN e.arg = "address"
    ELSE e.arg = "Ok"

IsPrefix(p, q) == Len(p) <= Len(q) /\ \A k \in 1..Len(p) : p[k] = q[k]

\* C16: connect attempts ParseUrl, Resolve, QuicConnect, DriverInit,
\* accept_settings, open_session, the write of the request, read_frame, the
\* decoding and register_session in this order, each at most once and only
\* after every earlier step succeeded; after the first failing step it
\* performs no later driver or stream operation.
C16_StrictFailStopSequence ==
    /\ IsPrefix(StartedSteps,
                IF c_url.host = "Domain" THEN StepOrder ELSE Tail(StepOrder))
    /\ StartedSteps # <<>> => (c_url.parsed /\ c_url.scheme = "https")
    /\ \A k \in 1..Len(c_trace) :
          /\ IsStart(c_trace[k]) =>
                \A j \in 1..(k - 1) : c_trace[j].ph = "ret" => Succeeded(c_trace[j])
          /\ c_trace[k].ph = "ret" =>
                /\ k > 1
                /\ c_trace[k - 1].ph = "call"
                /\ c_trace[k - 1].op = c_trace[k].op
                /\ ~Succeeded(c_trace[k]) =>
                      \A j \in (k + 1)..Len(c_trace) : c_trace[j].op \in {"close", "return"}
          /\ c_trace[k].op = "return" => (k = Len(c_trace) /\ c_pc = "done")
    /\ \A k \in At(c_trace, "register_session", "call") :
          /\ c_trace[k - 1].op = "read_frame"
          /\ Read2xx(c_trace[k - 1].arg)

\* C16 witness: connect to a domain went through every step and returned a Connection
C16_Witness ==
    /\ c_ret.tag = "Ok"
    /\ c_url.host = "Domain"
    /\ StartedSteps = StepOrder


\* positions of the client trace where read_frame failed with an I/O error
ReadIoFailed ==
    {k \in At(c_trace, "read_frame", "ret") :
        c_trace[k].arg.tag = "Err" /\ c_trace[k].arg.val.t = "IO"}

\* connect returned the ConnectionError of the close reason e of the connection,
\* right after the completion at position k, without close or register_session
ReturnedNoConnection(k, e) ==
    /\ c_pc = "done"
    /\ c_quic.close_reason = e
    /\ c_ret.tag = "Err"
    /\ c_ret.val.kind = "ConnectionError"
    /\ c_ret.val.inner = [via |-> "no_connect", code |-> e]
    /\ Len(c_trace) = k + 1
    /\ c_trace[k + 1].op = "return"
    /\ NoLocalClose(c_quic, c_trace)
    /\ At(c_trace, "register_session", "call") = {}
    /\ c_driver.registered = <<>>

\* C17: in connect a write of the request that fails with NotConnected and a
\* read_frame that fails with an I/O error both return a ConnectionError derived
\* from the close state of the QUIC connection, without a local close and
\* without a call of register_session.
C17_NoConnectionErrors ==
    /\ \A k \in WriteFailed(c_trace, "NotConnected") :
          ReturnedNoConnection(k, c_trace[k].arg.val.code)
    /\ \A k \in ReadIoFailed : ReturnedNoConnection(k, c_trace[k].arg.val.code)

\* C17 witness: read_frame failed with an I/O error on a connection that timed out
C17_Witness ==
    /\ c_pc = "done"
    /\ ReadIoFailed # {}
    /\ c_quic.close_reason = "TimedOut"
    /\ c_ret.val.inner.via = "no_connect"


----------------------------------------------------------------------------
(* Failures of SessionRequest::accept *)

\* C18: in accept, when sending the 200 response fails, accept returns the
\* error of send_response, register_session is never called and no Connection
\* is produced; when the response was sent and register_session fails, accept
\* returns ConnectionError(with_driver_error), produces no Connection and does
\* not close the QUIC connection locally.
C18_AcceptFailures ==
    r_method = "accept" =>
        /\ \A k \in At(s_trace, "write_frame", "ret") :
              s_trace[k].arg.tag = "Err" =>
                 /\ r_pc = "done"
                 /\ r_ret.tag = "Err"
                 /\ r_ret.val.via =
                       IF s_trace[k].arg.val.t = "Stopped" THEN "local_h3_error" ELSE "no_connect"
                 /\ \E j \in At(s_trace, "send_response", "ret") :
                       /\ s_trace[j].arg = r_ret
                       /\ s_trace[j + 1] = Ev("return", "sync", r_ret)
                       /\ j + 1 = Len(s_trace)
                 /\ At(s_trace, "register_session", "call") = {}
                 /\ s_driver.registered = <<>>
                 /\ s_quic.owner = "released"
        /\ RegisterRet(s_trace, "Err") # {} =>
              /\ WriteOk(s_trace) # {}
              /\ r_pc = "done"
              /\ r_ret.tag = "Err"
              /\ r_ret.val.via = "with_driver_error"
              /\ r_ret.val.code \in DriverErrors
              /\ NoLocalClose(s_quic, s_trace)
              /\ s_driver.registered = <<>>
              /\ s_quic.owner = "released"

\* C18 witness: the response was written and register_session failed
C18_Witness ==
    /\ r_method = "accept"
    /\ r_pc = "done"
    /\ Len(s_stream.written) = 1
    /\ RegisterRet(s_trace, "Err") # {}
    /\ r_ret.val.via = "with_driver_error"


----------------------------------------------------------------------------
(* Local closes of the QUIC connection *)

\* C19: connect closes the QUIC connection locally at most once; a local close
\* is immediately followed by an error return, which ends the execution; an
\* execution of connect that returned Ok(Connection) performed no local
\* close, and neither did an execution of accept that returned Ok(Connection).
C19_AtMostOneLocalClose ==
    /\ Len(c_quic.closes) <= 1
    /\ Cardinality(At(c_trace, "close", "sync")) = Len(c_quic.closes)
    /\ \A k \in At(c_trace, "close", "sync") :
          /\ Len(c_trace) = k + 1
          /\ c_trace[k + 1].op = "return"
          /\ c_trace[k + 1].arg.tag = "Err"
          /\ c_pc = "done"
          /\ c_ret.tag = "Err"
    /\ (c_pc = "done" /\ c_ret.tag = "Ok") => NoLocalClose(c_quic, c_trace)
    /\ AcceptedOk => NoLocalClose(s_quic, s_trace)

\* C19 witness: connect closed the connection once and returned an error
C19_Witness ==
    /\ c_pc = "done"
    /\ Len(c_quic.closes) = 1
    /\ Cardinality(At(c_trace, "close", "sync")) = 1
    /\ c_ret.tag = "Err"
    /\ c_trace[Len(c_trace)].op = "return"


----------------------------------------------------------------------------
(* Termination *)

Returns(trace) == Cardinality(At(trace, "return", "sync"))

\* a call has a result exactly when it has returned, it returns once, and the
\* return is the last step of the call
OneOutcome ==
    /\ (c_pc = "done") <=> (c_ret.tag # "Pending")
    /\ (i_pc = "done") <=> (i_ret.tag # "Pending")
    /\ (r_pc = "done") <=> (r_ret.tag # "Pending")
    /\ Returns(c_trace) = IF c_pc = "done" THEN 1 ELSE 0
    /\ Returns(s_trace) = (IF i_pc = "done" THEN 1 ELSE 0) + (IF r_pc = "done" THEN 1 ELSE 0)
    /\ c_pc = "done" => c_trace[Len(c_trace)] = Ev("return", "sync", c_ret)
    /\ (i_pc = "done" /\ r_pc \in {"none", "ready"}) =>
          s_trace[Len(s_trace)] = Ev("return", "sync", i_ret)
    /\ r_pc = "done" => s_trace[Len(s_trace)] = Ev("return", "sync", r_ret)

\* C20: when every awaited operation completes and no future is dropped, every
\* connect that was called, every IncomingSession, every accept and every
\* not_found eventually returns; each returns exactly one result and performs
\* no step after it.
C20_EveryCallTerminates ==
    /\ (c_pc # "idle") ~> (c_pc = "done")
    /\ (side = "Server") ~> (i_pc = "done")
    /\ (r_method = "accept") ~> (r_method = "accept" /\ r_pc = "done")
    /\ (r_method = "not_found") ~> (r_method = "not_found" /\ r_pc = "done")
    /\ []OneOutcome
    /\ [][(c_pc = "done") => UNCHANGED cvars]_vars
    /\ [][(i_pc = "done") => (i_pc' = i_pc /\ i_ret' = i_ret)]_vars
    /\ [][(r_pc = "done") => UNCHANGED svars]_vars

\* C20 witness: connect went through all its awaits and returned the Connection
C20_Witness ==
    /\ c_pc = "done"
    /\ c_ret.tag = "Ok"
    /\ \A op \in AwaitsOfConnect \ {"lookup_host"} : At(c_trace, op, "ret") # {}
    /\ Returns(c_trace) = 1

====
